---- MODULE Spec2Model ----
(***************************************************************************)
(* The "War" card game of card_counting: the PlayerStacks of card.rs and   *)
(* the round / game engine of game.rs.                                     *)
(*                                                                         *)
(* The specifications share the definitions:                                   *)
(*   Spec       play_game and repeated direct play_round calls over all    *)
(*              small initial stacks; the loop limit of play_game is run   *)
(*              at ScaledCap so that the limit is reached within bounds.   *)
(*   FairSpec   play_game alone, over the same stacks, with weak fairness  *)
(*              of its next step.                                          *)
(*   SpecCap    play_game at the program's own limit (ROUND_LIMIT) on one  *)
(*              pair of stacks that can cycle.                             *)
(*   SpecStacks the PlayerStacks interface (new, pop_front, append) driven *)
(*              by an arbitrary caller.                                    *)
(*   SpecRanks  as Spec, over cards of one suite and three ranks.          *)
(*   SpecPure   Card::create and game_outcome applied to arguments drawn   *)
(*              by Init.                                                   *)
(*   SpecTwin   two runs of play_game side by side, on the same ranks with *)
(*              different suites and the same shuffle outcomes.            *)
(***************************************************************************)
EXTENDS Integers, Sequences, FiniteSets, Bags, TLC

VARIABLES
    left,             \* play_game / play_round: left PlayerStacks
    right,            \* play_game / play_round: right PlayerStacks
    pc,               \* position in play_game / play_round / resolve_round
    caller,           \* who drives play_round: "play_game" or "test"
    round_counter,    \* play_game: round_counter (for "test": calls made)
    game_state,       \* play_game: game_state, the last RoundResult
    collected_cards,  \* resolve_round: cards popped so far in the running chain
    winner,           \* play_round: the ResolutionResult of resolve_round
    depth,            \* resolve_round invocations entered in the running round
    won_cards,        \* play_round: won_cards as returned by the last resolve_round
    pre_left,         \* left as it was when the running/last play_round was called
    pre_right,        \* right as it was when the running/last play_round was called
    initial,          \* the pair of stacks the run started from
    discarded,        \* cards dropped by play_round's GameOver arm, in order
    ps,               \* SpecStacks: the PlayerStacks under call
    ps_before,        \* SpecStacks: ps before the last call
    op,               \* SpecStacks: the last call
    arg,              \* SpecStacks: the batch given to the last append
    ret,              \* SpecStacks: what the last pop_front returned
    rounds_played,    \* play_round calls that have returned
    fn,               \* SpecPure: the function under call
    fn_arg,           \* SpecPure: its arguments
    fn_ret,           \* SpecPure: what it returned
    fn_done,          \* SpecPure: whether it has returned
    game_a,           \* SpecTwin: a game whose cards are all of one suite
    game_b,           \* SpecTwin: the same game with other suites
    shuffled_as       \* SpecTwin: the outcome of the last shuffle of game_b

vars == <<left, right, pc, caller, round_counter, game_state, collected_cards,
          winner, depth, won_cards, pre_left, pre_right, initial, discarded,
          ps, ps_before, op, arg, ret, rounds_played, fn, fn_arg, fn_ret, fn_done,
          game_a, game_b, shuffled_as>>

gameVars == <<left, right, pc, caller, round_counter, game_state, collected_cards,
              winner, depth, won_cards, pre_left, pre_right, initial, discarded,
              rounds_played>>

stackVars == <<ps, ps_before, op, arg, ret>>

pureVars == <<fn, fn_arg, fn_ret, fn_done>>

twinVars == <<game_a, game_b, shuffled_as>>

(***************************************************************************)
(* Bounds of the model.                                                    *)
(***************************************************************************)
MaxCards == 2      \* longest initial draw stack of a player
ScaledCap == 2     \* the loop limit of play_game as run by Spec
MaxCalls == 2      \* direct play_round calls made by the "test" caller
MaxBatch == 2      \* longest batch given to append in SpecStacks
MaxOutcomeCards == 1   \* longest draw or won stack given to game_outcome
MaxTotal == 4      \* most cards a PlayerStacks holds in SpecStacks

(***************************************************************************)
(* Program constants.                                                      *)
(***************************************************************************)
SUITE_SIZE == 13
U8_MAX == 255
ROUND_LIMIT == 100000

(***************************************************************************)
(* card.rs: Card, Suite, Stack                                             *)
(***************************************************************************)
Suite == {"Heart", "Club", "Diamond", "Spade"}

\* The suites dealt by the model: two of the four, so that cards of equal rank
\* and different suite exist.
DealtSuites == {"Heart", "Club"}

Card == [suite : Suite, number : 1..SUITE_SIZE]

\* The ranks dealt by the model: the lowest and the highest of 1..SUITE_SIZE.
\* compare_cards reads ranks only through = and >, which two ranks exercise.
DealtRanks == {1, SUITE_SIZE}

DealtCards == [suite : DealtSuites, number : DealtRanks]

U8 == 0..U8_MAX

None == <<>>

Some(x) == <<x>>

\* Mutant: the lower end of the range is not checked.
create_no_lower_check(suite, number) ==
    IF number > SUITE_SIZE % (U8_MAX + 1)
    THEN None
    ELSE Some([suite |-> suite, number |-> number])

\* Card::create, for a u8 number.
create(suite, number) ==
    IF number < 1 \/ number > SUITE_SIZE % (U8_MAX + 1)
    THEN None
    ELSE Some([suite |-> suite, number |-> number])

StacksUpTo(n) == UNION {[1..k -> DealtCards] : k \in 0..n}

(***************************************************************************)
(* card.rs: PlayerStacks                                                   *)
(***************************************************************************)
new(stack) == [draw_stack |-> stack, won_stack |-> <<>>]

\* Mutant: only the draw stack is looked at.
is_empty_draw_only(p) == p.draw_stack = <<>>

\* Mutant: the condition of pop_front's recycle taken for emptiness.
is_empty_like_recycle(p) == p.draw_stack = <<>> /\ p.won_stack # <<>>

is_empty(p) == p.draw_stack = <<>> /\ p.won_stack = <<>>

total_cards(p) == Len(p.draw_stack) + Len(p.won_stack)

\* slice.shuffle(&mut rng): every ordering of the sequence is a possible outcome.
Shuffles(s) ==
    IF s = <<>> THEN {<<>>}
    ELSE {[i \in 1..Len(s) |-> s[f[i]]] : f \in Permutations(1..Len(s))}

\* Mutant: the won stack is not cleared after it was moved to the draw stack.
shuffle_won_stack_keeping(p, shuffled) ==
    [draw_stack |-> <<>> \o shuffled, won_stack |-> p.won_stack]

\* shuffle_won_stack, for the ordering `shuffled` the random source produced.
shuffle_won_stack(p, shuffled) ==
    [draw_stack |-> <<>> \o shuffled, won_stack |-> <<>>]

\* Mutant: front() for pop_front(): the card is returned and stays.
draw_pop_front_peek(p) ==
    IF p.draw_stack = <<>>
    THEN [card |-> None, stacks |-> p]
    ELSE [card |-> Some(Head(p.draw_stack)), stacks |-> p]

\* VecDeque::pop_front on the draw stack: the Option returned and the stacks left.
draw_pop_front(p) ==
    IF p.draw_stack = <<>>
    THEN [card |-> None, stacks |-> p]
    ELSE [card |-> Some(Head(p.draw_stack)),
          stacks |-> [p EXCEPT !.draw_stack = Tail(p.draw_stack)]]

\* Mutant: no recycle of the won stack.
pop_front_no_recycle(p) ==
    IF p.draw_stack = <<>>
    THEN {[card |-> None, stacks |-> p]}
    ELSE {[card |-> Some(Head(p.draw_stack)),
           stacks |-> [p EXCEPT !.draw_stack = Tail(p.draw_stack)]]}

\* Mutant: the won stack is recycled whenever it holds a card.
pop_front_eager_recycle(p) ==
    IF p.won_stack # <<>>
    THEN {draw_pop_front(shuffle_won_stack(p, s)) : s \in Shuffles(p.won_stack)}
    ELSE {draw_pop_front(p)}

\* pop_front: the set of outcomes, one per outcome of the shuffle it may make.
pop_front(p) ==
    IF p.draw_stack = <<>> /\ p.won_stack # <<>>
    THEN {draw_pop_front(shuffle_won_stack(p, s)) : s \in Shuffles(p.won_stack)}
    ELSE {draw_pop_front(p)}

\* Mutant: the batch is put in front of the won stack.
append_in_front(p, cards) == [p EXCEPT !.won_stack = cards \o p.won_stack]

append(p, cards) == [p EXCEPT !.won_stack = p.won_stack \o cards]

(***************************************************************************)
(* game.rs                                                                 *)
(***************************************************************************)
\* Mutant: the comparison the wrong way round.
compare_cards_reversed(left_card, right_card) ==
    IF left_card.number = right_card.number THEN "Equal"
    ELSE IF left_card.number < right_card.number THEN "LeftWins"
    ELSE "RightWins"

\* Mutant: cards of equal rank are told apart by suite.
compare_cards_by_suite(left_card, right_card) ==
    IF left_card.number = right_card.number
    THEN IF left_card.suite = right_card.suite THEN "Equal"
         ELSE IF left_card.suite = "Heart" THEN "LeftWins"
         ELSE "RightWins"
    ELSE IF left_card.number > right_card.number THEN "LeftWins"
    ELSE "RightWins"

compare_cards(left_card, right_card) ==
    IF left_card.number = right_card.number THEN "Equal"
    ELSE IF left_card.number > right_card.number THEN "LeftWins"
    ELSE "RightWins"

\* Mutant: the count starts at one.
PlayGameEntry_from_one ==
    /\ pc = "play_game"
    /\ round_counter' = 1
    /\ game_state' = IF is_empty(left) \/ is_empty(right) THEN "GameOver" ELSE "Continue"
    /\ pc' = "while"
    /\ UNCHANGED <<left, right, caller, collected_cards, winner, depth, won_cards,
                   pre_left, pre_right, initial, discarded, rounds_played>>

\* play_game, lines 11-16.
PlayGameEntry ==
    /\ pc = "play_game"
    /\ round_counter' = 0
    /\ game_state' = IF is_empty(left) \/ is_empty(right) THEN "GameOver" ELSE "Continue"
    /\ pc' = "while"
    /\ UNCHANGED <<left, right, caller, collected_cards, winner, depth, won_cards,
                   pre_left, pre_right, initial, discarded, rounds_played>>

\* The call of play_round: resolve_round is entered with nothing collected.
CallPlayRound ==
    /\ round_counter' = round_counter + 1
    /\ collected_cards' = <<>>
    /\ depth' = 0
    /\ winner' = "None"
    /\ pre_left' = left
    /\ pre_right' = right
    /\ pc' = "resolve_round"
    /\ UNCHANGED <<left, right, caller, game_state, won_cards, initial, discarded, rounds_played>>

\* Mutant: the loop is not left when the round returned GameOver.
WhileTest_not_leaving ==
    /\ pc = "while"
    /\ game_state = "Continue"
    /\ CallPlayRound

\* Mutant: the loop goes on whatever the round returned; only the limit ends it.
WhileTest_ignoring_result ==
    /\ pc = "while"
    /\ CallPlayRound

\* play_game, lines 18-20: the loop test, the increment and the call; line 28
\* when the loop ends.
WhileTest ==
    /\ pc = "while"
    /\ IF game_state = "Continue"
       THEN CallPlayRound
       ELSE /\ pc' = "return"
            /\ UNCHANGED <<left, right, caller, round_counter, game_state,
                           collected_cards, winner, depth, won_cards, pre_left,
                           pre_right, initial, discarded, rounds_played>>

\* A test of game.rs calling play_round directly (lines 126, 137, 157, 168).
TestCallsPlayRound ==
    /\ pc = "test"
    /\ round_counter < MaxCalls
    /\ CallPlayRound

\* Mutant: the cards of the tied pairs before are not kept (line 91 left out).
collect_forgetting(collected, left_card, right_card) ==
    <<left_card, right_card>>

\* resolve_round, lines 78-79 and 91: the pair is pushed left card first, behind
\* what the chain has collected so far.
collect(collected, left_card, right_card) ==
    collected \o <<left_card, right_card>>

\* One invocation of resolve_round. The recursive call of line 89 is the next
\* invocation; the callers' collected_cards, which line 91 puts in front of what
\* the callee returns, are kept in collected_cards in that order. An unwrap of
\* None (lines 73, 74) panics: left is popped before right is looked at.
ResolveRound ==
    /\ pc = "resolve_round"
    /\ depth' = depth + 1
    /\ IF is_empty(left) \/ is_empty(right)
       THEN /\ winner' = "GameOver"
            /\ pc' = "play_round"
            /\ UNCHANGED <<left, right, collected_cards>>
       ELSE \E lp \in pop_front(left), rp \in pop_front(right) :
              IF lp.card = None
              THEN /\ pc' = "panic"
                   /\ left' = lp.stacks
                   /\ UNCHANGED <<right, collected_cards, winner>>
              ELSE IF rp.card = None
              THEN /\ pc' = "panic"
                   /\ left' = lp.stacks
                   /\ right' = rp.stacks
                   /\ UNCHANGED <<collected_cards, winner>>
              ELSE LET left_card == lp.card[1]
                       right_card == rp.card[1]
                       comparison_result == compare_cards(left_card, right_card)
                   IN  /\ left' = lp.stacks
                       /\ right' = rp.stacks
                       /\ collected_cards' = collect(collected_cards, left_card, right_card)
                       /\ IF comparison_result = "Equal"
                          THEN /\ pc' = "resolve_round"
                               /\ winner' = winner
                          ELSE /\ pc' = "play_round"
                               /\ winner' = comparison_result
    /\ UNCHANGED <<caller, round_counter, game_state, won_cards, pre_left, pre_right,
                   initial, discarded, rounds_played>>

\* Mutant: on GameOver the cards go to the player who still has cards.
play_round_awarding(l, r, cards, w) ==
    CASE w = "LeftWins" ->
           [left |-> append(l, cards), right |-> r, result |-> "Continue", dropped |-> <<>>]
      [] w = "RightWins" ->
           [left |-> l, right |-> append(r, cards), result |-> "Continue", dropped |-> <<>>]
      [] OTHER ->
           IF is_empty(l)
           THEN [left |-> l, right |-> append(r, cards), result |-> "GameOver", dropped |-> <<>>]
           ELSE [left |-> append(l, cards), right |-> r, result |-> "GameOver", dropped |-> <<>>]

\* Mutant: the cards go to the player who lost the chain.
play_round_swapped(l, r, cards, w) ==
    CASE w = "LeftWins" ->
           [left |-> l, right |-> append(r, cards), result |-> "Continue", dropped |-> <<>>]
      [] w = "RightWins" ->
           [left |-> append(l, cards), right |-> r, result |-> "Continue", dropped |-> <<>>]
      [] OTHER ->
           [left |-> l, right |-> r, result |-> "GameOver", dropped |-> cards]

\* play_round, lines 50-62: what the match makes of the ResolutionResult `w`
\* and the cards resolve_round returned. `dropped` is what goes out of scope
\* un-appended.
play_round(l, r, cards, w) ==
    CASE w = "LeftWins" ->
           [left |-> append(l, cards), right |-> r, result |-> "Continue", dropped |-> <<>>]
      [] w = "RightWins" ->
           [left |-> l, right |-> append(r, cards), result |-> "Continue", dropped |-> <<>>]
      [] OTHER ->
           [left |-> l, right |-> r, result |-> "GameOver", dropped |-> cards]

\* play_round after resolve_round returned (line 48); its result is assigned to
\* game_state by play_game (line 20) and is what a test reads.
PlayRound ==
    /\ pc = "play_round"
    /\ LET done == play_round(left, right, collected_cards, winner)
       IN  /\ left' = done.left
           /\ right' = done.right
           /\ game_state' = done.result
           /\ discarded' = discarded \o done.dropped
    /\ won_cards' = collected_cards
    /\ collected_cards' = <<>>
    /\ pc' = IF caller = "play_game" THEN "cap_check" ELSE "test"
    /\ rounds_played' = rounds_played + 1
    /\ UNCHANGED <<caller, round_counter, winner, depth, pre_left, pre_right, initial>>

\* Mutant: the limit compared the wrong way round.
CapCheck_reversed(cap) ==
    /\ pc = "cap_check"
    /\ pc' = IF round_counter < cap THEN "return" ELSE "while"
    /\ UNCHANGED <<left, right, caller, round_counter, game_state, collected_cards,
                   winner, depth, won_cards, pre_left, pre_right, initial, discarded, rounds_played>>

\* play_game, lines 22-25, for the loop limit `cap`.
CapCheck(cap) ==
    /\ pc = "cap_check"
    /\ pc' = IF round_counter > cap THEN "return" ELSE "while"
    /\ UNCHANGED <<left, right, caller, round_counter, game_state, collected_cards,
                   winner, depth, won_cards, pre_left, pre_right, initial, discarded, rounds_played>>

InitGame(callers, lefts, rights) ==
    /\ caller \in callers
    /\ pc = caller
    /\ \E l \in lefts, r \in rights :
         /\ left = new(l)
         /\ right = new(r)
         /\ initial = <<new(l), new(r)>>
         /\ pre_left = new(l)
         /\ pre_right = new(r)
    /\ round_counter = 0
    /\ game_state = "Continue"
    /\ collected_cards = <<>>
    /\ winner = "None"
    /\ depth = 0
    /\ won_cards = <<>>
    /\ discarded = <<>>
    /\ rounds_played = 0

IdleStacks ==
    /\ ps = new(<<>>)
    /\ ps_before = new(<<>>)
    /\ op = "none"
    /\ arg = <<>>
    /\ ret = None

IdlePure ==
    /\ fn = "none"
    /\ fn_arg = <<>>
    /\ fn_ret = <<>>
    /\ fn_done = FALSE

IdleTwin ==
    /\ game_a = <<>>
    /\ game_b = <<>>
    /\ shuffled_as = <<>>

Init ==
    /\ InitGame({"play_game", "test"}, StacksUpTo(MaxCards), StacksUpTo(MaxCards))
    /\ IdleStacks
    /\ IdlePure
    /\ IdleTwin

Next ==
    \/ PlayGameEntry /\ UNCHANGED <<stackVars, pureVars, twinVars>>
    \/ WhileTest /\ UNCHANGED <<stackVars, pureVars, twinVars>>
    \/ TestCallsPlayRound /\ UNCHANGED <<stackVars, pureVars, twinVars>>
    \/ ResolveRound /\ UNCHANGED <<stackVars, pureVars, twinVars>>
    \/ PlayRound /\ UNCHANGED <<stackVars, pureVars, twinVars>>
    \/ CapCheck(ScaledCap) /\ UNCHANGED <<stackVars, pureVars, twinVars>>

Spec == Init /\ [][Next]_vars

\* Spec over cards of one suite and three ranks, so that a player who does not
\* hold the highest card can win rounds.
ThreeRanks == {1, SUITE_SIZE - 1, SUITE_SIZE}

StacksOfRanksUpTo(n) == UNION {[1..k -> [suite : {"Heart"}, number : ThreeRanks]] : k \in 0..n}

InitRanks ==
    /\ InitGame({"play_game", "test"}, StacksOfRanksUpTo(MaxCards), StacksOfRanksUpTo(MaxCards))
    /\ IdleStacks
    /\ IdlePure
    /\ IdleTwin

SpecRanks == InitRanks /\ [][Next]_vars

\* play_game alone, with the progress the running program makes: its next
\* step, whichever it is, is eventually taken.
InitPlayGame ==
    /\ InitGame({"play_game"}, StacksUpTo(MaxCards), StacksUpTo(MaxCards))
    /\ IdleStacks
    /\ IdlePure
    /\ IdleTwin

NextPlayGame ==
    \/ PlayGameEntry /\ UNCHANGED <<stackVars, pureVars, twinVars>>
    \/ WhileTest /\ UNCHANGED <<stackVars, pureVars, twinVars>>
    \/ ResolveRound /\ UNCHANGED <<stackVars, pureVars, twinVars>>
    \/ PlayRound /\ UNCHANGED <<stackVars, pureVars, twinVars>>
    \/ CapCheck(ScaledCap) /\ UNCHANGED <<stackVars, pureVars, twinVars>>

FairSpec == InitPlayGame /\ [][NextPlayGame]_vars /\ WF_vars(NextPlayGame)

(***************************************************************************)
(* The PlayerStacks interface under an arbitrary caller.                   *)
(***************************************************************************)
IdleGame ==
    /\ caller = "none"
    /\ pc = "none"
    /\ left = new(<<>>)
    /\ right = new(<<>>)
    /\ initial = <<new(<<>>), new(<<>>)>>
    /\ pre_left = new(<<>>)
    /\ pre_right = new(<<>>)
    /\ round_counter = 0
    /\ game_state = "Continue"
    /\ collected_cards = <<>>
    /\ winner = "None"
    /\ depth = 0
    /\ won_cards = <<>>
    /\ discarded = <<>>
    /\ rounds_played = 0

InitStacks ==
    /\ IdleGame
    /\ IdlePure
    /\ IdleTwin
    /\ \E stack \in StacksUpTo(MaxCards) :
         /\ ps = new(stack)
         /\ ps_before = new(stack)
    /\ op = "new"
    /\ arg = <<>>
    /\ ret = None

CallPopFront ==
    /\ \E out \in pop_front(ps) :
         /\ ps' = out.stacks
         /\ ret' = out.card
    /\ ps_before' = ps
    /\ op' = "pop_front"
    /\ arg' = <<>>

CallAppend ==
    /\ \E cards \in StacksUpTo(MaxBatch) :
         /\ total_cards(ps) + Len(cards) <= MaxTotal
         /\ ps' = append(ps, cards)
         /\ arg' = cards
    /\ ps_before' = ps
    /\ op' = "append"
    /\ ret' = None

NextStacks ==
    \/ CallPopFront /\ UNCHANGED <<gameVars, pureVars, twinVars>>
    \/ CallAppend /\ UNCHANGED <<gameVars, pureVars, twinVars>>

SpecStacks == InitStacks /\ [][NextStacks]_vars

(***************************************************************************)
(* main.rs: game_outcome; and the pure functions under call.               *)
(***************************************************************************)
\* Mutant: the player with more cards is taken for the winner.
game_outcome_by_count(left_player, right_player) ==
    IF total_cards(left_player) = total_cards(right_player) THEN "Draw"
    ELSE IF total_cards(left_player) < total_cards(right_player) THEN "RightWins"
    ELSE "LeftWins"

\* game_outcome: the match arms in their order.
game_outcome(left_player, right_player) ==
    LET totals == <<total_cards(left_player), total_cards(right_player)>>
    IN  IF totals[1] = 0 /\ totals[2] = 0 THEN "Draw"
        ELSE IF totals[1] = 0 THEN "RightWins"
        ELSE IF totals[2] = 0 THEN "LeftWins"
        ELSE "Draw"

\* Any PlayerStacks with at most n cards on each stack.
PlayerStacksUpTo(n) == [draw_stack : StacksUpTo(n), won_stack : StacksUpTo(n)]

InitPure ==
    /\ IdleGame
    /\ IdleStacks
    /\ IdleTwin
    /\ \/ /\ fn = "game_outcome"
          /\ fn_arg \in PlayerStacksUpTo(MaxOutcomeCards) \X PlayerStacksUpTo(MaxOutcomeCards)
       \/ /\ fn = "Card::create"
          /\ fn_arg \in Suite \X U8
    /\ fn_ret = <<>>
    /\ fn_done = FALSE

CallGameOutcome ==
    /\ fn = "game_outcome"
    /\ ~fn_done
    /\ fn_ret' = game_outcome(fn_arg[1], fn_arg[2])
    /\ fn_done' = TRUE
    /\ UNCHANGED <<fn, fn_arg>>

CallCardCreate ==
    /\ fn = "Card::create"
    /\ ~fn_done
    /\ fn_ret' = create(fn_arg[1], fn_arg[2])
    /\ fn_done' = TRUE
    /\ UNCHANGED <<fn, fn_arg>>

NextPure ==
    \/ CallGameOutcome /\ UNCHANGED <<gameVars, stackVars, twinVars>>
    \/ CallCardCreate /\ UNCHANGED <<gameVars, stackVars, twinVars>>

SpecPure == InitPure /\ [][NextPure]_vars

(***************************************************************************)
(* play_game at the program's own loop limit, from one pair of stacks whose *)
(* rounds can repeat for ever: left wins the first round, right the second, *)
(* and both recycle into the order they started with.                      *)
(***************************************************************************)
CyclingLeft == <<[suite |-> "Club", number |-> SUITE_SIZE], [suite |-> "Club", number |-> 1]>>

CyclingRight == <<[suite |-> "Heart", number |-> 1], [suite |-> "Heart", number |-> SUITE_SIZE]>>

InitCap ==
    /\ InitGame({"play_game"}, {CyclingLeft}, {CyclingRight})
    /\ IdleStacks
    /\ IdlePure
    /\ IdleTwin

NextCap ==
    \/ PlayGameEntry /\ UNCHANGED <<stackVars, pureVars, twinVars>>
    \/ WhileTest /\ UNCHANGED <<stackVars, pureVars, twinVars>>
    \/ ResolveRound /\ UNCHANGED <<stackVars, pureVars, twinVars>>
    \/ PlayRound /\ UNCHANGED <<stackVars, pureVars, twinVars>>
    \/ CapCheck(ROUND_LIMIT) /\ UNCHANGED <<stackVars, pureVars, twinVars>>

SpecCap == InitCap /\ [][NextCap]_vars

(***************************************************************************)
(* Two runs of play_game side by side.                                     *)
(***************************************************************************)
\* What the random source can make of one shuffle: an ordering of the
\* positions of the won stack when pop_front is about to recycle it, and
\* nothing when pop_front does not shuffle.
ShuffleChoices(p) ==
    IF p.draw_stack = <<>> /\ p.won_stack # <<>>
    THEN Permutations(1..Len(p.won_stack))
    ELSE {<<>>}

\* pop_front when the shuffle it may make puts position f[i] at place i.
pop_front_with(p, f) ==
    IF p.draw_stack = <<>> /\ p.won_stack # <<>>
    THEN draw_pop_front(shuffle_won_stack(p, [i \in 1..Len(p.won_stack) |-> p.won_stack[f[i]]]))
    ELSE draw_pop_front(p)

\* One step of play_game on the game `g`, a record of the variables of
\* play_game, play_round and resolve_round; fl and fr are the shuffle outcomes
\* of the pop_front of left and right.
play_game_step(g, fl, fr) ==
    CASE g.pc = "play_game" ->
           [g EXCEPT !.round_counter = 0,
                     !.game_state = IF is_empty(g.left) \/ is_empty(g.right)
                                    THEN "GameOver" ELSE "Continue",
                     !.pc = "while"]
      [] g.pc = "while" ->
           IF g.game_state = "Continue"
           THEN [g EXCEPT !.round_counter = g.round_counter + 1,
                          !.collected_cards = <<>>,
                          !.winner = "None",
                          !.pc = "resolve_round"]
           ELSE [g EXCEPT !.pc = "return"]
      [] g.pc = "resolve_round" ->
           IF is_empty(g.left) \/ is_empty(g.right)
           THEN [g EXCEPT !.winner = "GameOver", !.pc = "play_round"]
           ELSE LET lp == pop_front_with(g.left, fl)
                    rp == pop_front_with(g.right, fr)
                IN  IF lp.card = None
                    THEN [g EXCEPT !.left = lp.stacks, !.pc = "panic"]
                    ELSE IF rp.card = None
                    THEN [g EXCEPT !.left = lp.stacks, !.right = rp.stacks, !.pc = "panic"]
                    ELSE LET left_card == lp.card[1]
                             right_card == rp.card[1]
                             comparison_result == compare_cards(left_card, right_card)
                         IN  [g EXCEPT !.left = lp.stacks,
                                       !.right = rp.stacks,
                                       !.collected_cards =
                                           collect(g.collected_cards, left_card, right_card),
                                       !.winner = IF comparison_result = "Equal"
                                                  THEN g.winner ELSE comparison_result,
                                       !.pc = IF comparison_result = "Equal"
                                              THEN "resolve_round" ELSE "play_round"]
      [] g.pc = "play_round" ->
           LET done == play_round(g.left, g.right, g.collected_cards, g.winner)
           IN  [g EXCEPT !.left = done.left,
                         !.right = done.right,
                         !.game_state = done.result,
                         !.collected_cards = <<>>,
                         !.pc = "cap_check"]
      [] g.pc = "cap_check" ->
           [g EXCEPT !.pc = IF g.round_counter > ScaledCap THEN "return" ELSE "while"]
      [] OTHER -> g

\* The stack with every card turned into a Heart of its rank.
InOneSuite(stack) == [i \in DOMAIN stack |-> [suite |-> "Heart", number |-> stack[i].number]]

\* play_game called on new(l), new(r).
GameOn(l, r) ==
    [left |-> new(l), right |-> new(r), pc |-> "play_game", round_counter |-> 0,
     game_state |-> "Continue", collected_cards |-> <<>>, winner |-> "None"]

\* game_b is dealt any stacks; game_a is dealt the same ranks in one suite.
\* Any two games of the same ranks are both the game_b of the same game_a.
InitTwin ==
    /\ IdleGame
    /\ IdleStacks
    /\ IdlePure
    /\ \E l \in StacksUpTo(MaxCards), r \in StacksUpTo(MaxCards) :
         /\ game_a = GameOn(InOneSuite(l), InOneSuite(r))
         /\ game_b = GameOn(l, r)
    /\ shuffled_as = <<>>

\* The shuffle outcomes the next step of `g` can meet in pop_front of `p`:
\* resolve_round pops only when neither player is empty (lines 69-74).
ChoicesAt(g, p) ==
    IF g.pc = "resolve_round" /\ ~(is_empty(g.left) \/ is_empty(g.right))
    THEN ShuffleChoices(p)
    ELSE {<<>>}

\* The same random source in both games: the outcome `f` again when it is
\* one of `choices`, that is when as many cards are shuffled.
SameOutcome(f, choices) == IF f \in choices THEN {f} ELSE choices

\* Both games take their next step, with the same shuffle outcomes.
TwinStep ==
    /\ game_a.pc \notin {"return", "panic"} \/ game_b.pc \notin {"return", "panic"}
    /\ \E fl_a \in ChoicesAt(game_a, game_a.left), fr_a \in ChoicesAt(game_a, game_a.right) :
         \E fl_b \in SameOutcome(fl_a, ChoicesAt(game_b, game_b.left)),
            fr_b \in SameOutcome(fr_a, ChoicesAt(game_b, game_b.right)) :
           /\ game_a' = play_game_step(game_a, fl_a, fr_a)
           /\ game_b' = play_game_step(game_b, fl_b, fr_b)
           /\ shuffled_as' = IF fr_b # <<>> THEN fr_b
                             ELSE IF fl_b # <<>> THEN fl_b
                             ELSE shuffled_as

NextTwin == TwinStep /\ UNCHANGED <<gameVars, stackVars, pureVars>>

SpecTwin == InitTwin /\ [][NextTwin]_vars

(***************************************************************************)
(* Helpers of the properties.                                              *)
(***************************************************************************)
BagOf(s) == [c \in {s[i] : i \in DOMAIN s} |-> Cardinality({i \in DOMAIN s : s[i] = c})]

CardsOf(p) == p.draw_stack \o p.won_stack

HasNoCard(p) == Len(p.draw_stack) = 0 /\ Len(p.won_stack) = 0

InitialTotal == Len(initial[1].draw_stack) + Len(initial[2].draw_stack)

\* The cards at the odd (left player's) or even (right player's) places.
LeftPopped(cards) == [i \in 1..(Len(cards) \div 2) |-> cards[2 * i - 1]]

RightPopped(cards) == [i \in 1..(Len(cards) \div 2) |-> cards[2 * i]]

RanksOf(cards) == [i \in DOMAIN cards |-> cards[i].number]

PairTies(cards, i) == cards[2 * i - 1].number = cards[2 * i].number

\* k tied pairs followed by one pair of different ranks.
TiesThenDiffers(cards, k) ==
    /\ Len(cards) = 2 * (k + 1)
    /\ \A i \in 1..k : PairTies(cards, i)
    /\ ~PairTies(cards, k + 1)

\* Every pair ties.
AllTie(cards) ==
    /\ Len(cards) >= 2
    /\ Len(cards) % 2 = 0
    /\ \A i \in 1..(Len(cards) \div 2) : PairTies(cards, i)

RoundOver == pc \in {"cap_check", "test", "while", "return"} /\ round_counter >= 1

\* C1: card conservation. At every point the cards of both players, the cards
\* of the running chain and the cards discarded by chains that ended in game
\* over are, card for card, the cards dealt; between rounds the two totals plus
\* the number of discarded cards is the sum of the initial totals.
CardConservation ==
    /\ BagOf(CardsOf(left) \o CardsOf(right) \o collected_cards \o discarded)
         = BagOf(CardsOf(initial[1]) \o CardsOf(initial[2]))
    /\ pc \notin {"resolve_round", "play_round", "panic"} =>
         total_cards(left) + total_cards(right) + Len(discarded) = InitialTotal

\* Two rounds played, the second a tie chain that ended in game over.
CardConservationWitness ==
    /\ RoundOver
    /\ round_counter >= 2
    /\ discarded # <<>>
    /\ total_cards(left) + total_cards(right) > 0

\* C2: the round count play_game returns is at most the loop limit.
RoundCountWithinLimit ==
    (pc = "return" /\ caller = "play_game") => round_counter <= ROUND_LIMIT

\* C3: play_game returns, and every play_round that was called returns.
Termination ==
    /\ <>(pc = "return")
    /\ [](pc = "resolve_round" => <>(pc = "cap_check"))

\* A game whose stacks cycled: stopped by the loop limit with both players
\* holding cards.
TerminationWitness ==
    /\ pc = "return"
    /\ round_counter > ScaledCap
    /\ ~HasNoCard(left)
    /\ ~HasNoCard(right)

\* C4: when play_game returns for initial stacks of equal size, one player has
\* no card and the other has every card that was not discarded, or both have
\* cards and the loop was stopped by the limit.
TerminalState ==
    (/\ pc = "return"
     /\ caller = "play_game"
     /\ Len(initial[1].draw_stack) = Len(initial[2].draw_stack))
    => \/ /\ total_cards(left) = 0
          /\ total_cards(right) = InitialTotal - Len(discarded)
       \/ /\ total_cards(right) = 0
          /\ total_cards(left) = InitialTotal - Len(discarded)
       \/ /\ total_cards(left) > 0
          /\ total_cards(right) > 0
          /\ round_counter > ScaledCap

\* A game of equal stacks that ended by a tie chain running dry: the right
\* player holds what was not discarded.
TerminalStateWitness ==
    /\ pc = "return"
    /\ caller = "play_game"
    /\ Len(initial[1].draw_stack) = Len(initial[2].draw_stack)
    /\ total_cards(left) = 0
    /\ total_cards(right) > 0
    /\ discarded # <<>>

\* The pairs popped so far in the running round, counted on the left player's
\* total.
PairsPopped == total_cards(pre_left) - total_cards(left)

LastPairDiffers ==
    /\ Len(collected_cards) >= 2
    /\ collected_cards[Len(collected_cards) - 1].number
         # collected_cards[Len(collected_cards)].number

\* A player who had at least n cards on the draw stack popped them from its front.
FromTheFront(popped, pre, n) ==
    Len(pre.draw_stack) >= n => popped = SubSeq(pre.draw_stack, 1, n)

\* The chain holds the n pairs popped in this round, in pop order: the left
\* player's cards at the odd places, the right player's at the even places.
PoppedInOrder(n) ==
    /\ Len(collected_cards) = 2 * n
    /\ total_cards(right) = total_cards(pre_right) - n
    /\ BagOf(LeftPopped(collected_cards) \o CardsOf(left)) = BagOf(CardsOf(pre_left))
    /\ BagOf(RightPopped(collected_cards) \o CardsOf(right)) = BagOf(CardsOf(pre_right))
    /\ FromTheFront(LeftPopped(collected_cards), pre_left, n)
    /\ FromTheFront(RightPopped(collected_cards), pre_right, n)

\* What the round's end (the step of play_round's match) does for the player
\* `w` who wins n pairs and the player `l` who loses them.
Awarded(w, wAfter, wPre, l, lAfter, lPre, n) ==
    /\ wAfter.won_stack = w.won_stack \o collected_cards
    /\ wAfter.draw_stack = w.draw_stack
    /\ lAfter = l
    /\ total_cards(wAfter) = total_cards(wPre) + n
    /\ total_cards(lAfter) = total_cards(lPre) - n

AwardedToHigher(n) ==
    IF collected_cards[2 * n - 1].number > collected_cards[2 * n].number
    THEN Awarded(left, left', pre_left, right, right', pre_right, n)
    ELSE Awarded(right, right', pre_right, left, left', pre_left, n)

\* C5: outright win. When one pair was popped and it differs in rank, the round
\* returns Continue, the two cards (left card, then right card) go to the back
\* of the won stack of the owner of the higher card, the other player gets
\* nothing, and the totals move by one.
OutrightWin ==
    [][(pc = "play_round" /\ PairsPopped = 1 /\ LastPairDiffers) =>
         /\ game_state' = "Continue"
         /\ PoppedInOrder(1)
         /\ AwardedToHigher(1)
         /\ discarded' = discarded]_vars

\* The right player won a round outright and holds the pair, left card first.
OutrightWinWitness ==
    /\ RoundOver
    /\ game_state = "Continue"
    /\ Len(won_cards) = 2
    /\ won_cards[1].number < won_cards[2].number
    /\ Len(right.won_stack) >= 2
    /\ SubSeq(right.won_stack, Len(right.won_stack) - 1, Len(right.won_stack)) = won_cards

\* C6: tie chain. When k + 1 >= 2 pairs were popped and the last differs, the
\* k pairs before it tie, the round returns Continue, all 2(k+1) cards go in
\* pop order to the won stack of the owner of the higher card of the last
\* pair, the other player gets nothing, and the totals move by k+1.
TieChainResolution ==
    [][(pc = "play_round" /\ PairsPopped >= 2 /\ LastPairDiffers) =>
         /\ TiesThenDiffers(collected_cards, PairsPopped - 1)
         /\ game_state' = "Continue"
         /\ PoppedInOrder(PairsPopped)
         /\ AwardedToHigher(PairsPopped)
         /\ discarded' = discarded]_vars

\* The left player won a chain of one tie and holds its four cards.
TieChainResolutionWitness ==
    /\ RoundOver
    /\ game_state = "Continue"
    /\ TiesThenDiffers(won_cards, 1)
    /\ won_cards[3].number > won_cards[4].number
    /\ total_cards(left) = total_cards(pre_left) + 2
    /\ total_cards(right) = total_cards(pre_right) - 2

\* C7: mid-tie exhaustion. When pairs were popped in a round and the last one
\* ties, every pair of the round ties and a player has run dry; the round
\* returns GameOver, no popped card is appended to either won stack (they are
\* discarded), and each player's total is down by the cards that player
\* popped; from identical fresh decks both players end with no card.
MidTieExhaustion ==
    [][(pc = "play_round") =>
         /\ (PairsPopped >= 1 /\ ~LastPairDiffers) =>
              /\ AllTie(collected_cards)
              /\ HasNoCard(left) \/ HasNoCard(right)
              /\ game_state' = "GameOver"
              /\ PoppedInOrder(PairsPopped)
              /\ left' = left
              /\ right' = right
              /\ discarded' = discarded \o collected_cards
         /\ (/\ pre_left.won_stack = <<>>
             /\ pre_right.won_stack = <<>>
             /\ pre_left.draw_stack # <<>>
             /\ RanksOf(pre_left.draw_stack) = RanksOf(pre_right.draw_stack)) =>
              /\ game_state' = "GameOver"
              /\ PairsPopped = Len(pre_left.draw_stack)
              /\ total_cards(left') = 0
              /\ total_cards(right') = 0]_vars

\* A chain that tied until the left player ran dry, the right player keeping
\* a card.
MidTieExhaustionWitness ==
    /\ RoundOver
    /\ game_state = "GameOver"
    /\ AllTie(won_cards)
    /\ discarded = won_cards
    /\ total_cards(left) = 0
    /\ total_cards(right) > 0

\* C8: a round called with a player who has no card returns GameOver and
\* leaves both players' stacks as they were.
EmptyAtRoundStart ==
    (round_counter >= 1 /\ (HasNoCard(pre_left) \/ HasNoCard(pre_right))) =>
      /\ left = pre_left
      /\ right = pre_right
      /\ collected_cards = <<>>
      /\ pc \in {"resolve_round", "play_round", "cap_check", "test", "while", "return"}
      /\ RoundOver => (game_state = "GameOver" /\ won_cards = <<>>)

\* The round found the left player without a card while the right player's
\* cards were all on the won stack, which was not recycled.
EmptyAtRoundStartWitness ==
    /\ RoundOver
    /\ HasNoCard(pre_left)
    /\ pre_right.draw_stack = <<>>
    /\ Len(pre_right.won_stack) >= 2
    /\ right = pre_right
    /\ game_state = "GameOver"

\* C9: recycle. pop_front on an empty draw stack and a non-empty won stack
\* returns a card, leaves the won stack empty and the draw stack, with the
\* returned card, a permutation of the old won stack; the total drops by one.
RecycleOnPopFront ==
    (op = "pop_front" /\ ps_before.draw_stack = <<>> /\ ps_before.won_stack # <<>>) =>
      /\ ret # None
      /\ ps.won_stack = <<>>
      /\ BagOf(ret \o ps.draw_stack) = BagOf(ps_before.won_stack)
      /\ total_cards(ps) = total_cards(ps_before) - 1

\* A recycle that brought another card than the first won one to the front.
RecycleOnPopFrontWitness ==
    /\ op = "pop_front"
    /\ ps_before.draw_stack = <<>>
    /\ Len(ps_before.won_stack) >= 2
    /\ ret # None
    /\ ret # Some(Head(ps_before.won_stack))
    /\ Len(ps.draw_stack) = Len(ps_before.won_stack) - 1

\* C10: pop_front returns no card exactly when both stacks are empty at the
\* call, and then leaves both empty; in every other state it returns a card.
ExhaustionIsNotAnError ==
    (op = "pop_front") =>
      /\ (ret = None) <=> HasNoCard(ps_before)
      /\ (ret = None) => (ps = ps_before /\ HasNoCard(ps))
      /\ (ret # None) => (Len(ret) = 1 /\ ret[1] \in DealtCards)

\* pop_front on a PlayerStacks that was emptied by earlier calls.
ExhaustionIsNotAnErrorWitness ==
    /\ op = "pop_front"
    /\ ret = None
    /\ HasNoCard(ps)
    /\ HasNoCard(ps_before)

\* C11: append leaves the won stack as the old won stack followed by the batch
\* in the batch's own order, and leaves the draw stack unchanged.
AppendToWonStack ==
    (op = "append") =>
      /\ ps.won_stack = ps_before.won_stack \o arg
      /\ ps.draw_stack = ps_before.draw_stack

\* A batch of two different cards appended behind a won card, with a card on
\* the draw stack.
AppendToWonStackWitness ==
    /\ op = "append"
    /\ Len(arg) = 2
    /\ arg[1] # arg[2]
    /\ ps_before.won_stack # <<>>
    /\ Head(ps_before.won_stack) # arg[1]
    /\ ps_before.draw_stack # <<>>
    /\ Len(ps.won_stack) = Len(ps_before.won_stack) + 2

\* C17: won cards are not playable until the draw stack empties. With a card
\* on the draw stack, pop_front returns the front card of the draw stack,
\* removes only that card and leaves the won stack unchanged; a pop_front that
\* takes anything from the won stack found the draw stack empty.
WonCardsWait ==
    (op = "pop_front") =>
      /\ ps_before.draw_stack # <<>> =>
           /\ ret = Some(Head(ps_before.draw_stack))
           /\ ps.draw_stack = Tail(ps_before.draw_stack)
           /\ ps.won_stack = ps_before.won_stack
      /\ ps.won_stack # ps_before.won_stack => ps_before.draw_stack = <<>>

\* A pop_front that passed over a won card different from the card it returned.
WonCardsWaitWitness ==
    /\ op = "pop_front"
    /\ ps_before.draw_stack # <<>>
    /\ ps_before.won_stack # <<>>
    /\ ret = Some(Head(ps_before.draw_stack))
    /\ \A i \in DOMAIN ps_before.won_stack : ps_before.won_stack[i] # ret[1]
    /\ ps.won_stack = ps_before.won_stack

\* C12: game_outcome returns LeftWins exactly when the right player has no card
\* and the left player has one, RightWins exactly when the left player has no
\* card and the right player has one, and Draw in every other case; players
\* who both hold cards are never given a win.
OutcomeClassification ==
    (fn = "game_outcome" /\ fn_done) =>
      LET nl == Len(fn_arg[1].draw_stack) + Len(fn_arg[1].won_stack)
          nr == Len(fn_arg[2].draw_stack) + Len(fn_arg[2].won_stack)
      IN  /\ fn_ret \in {"LeftWins", "RightWins", "Draw"}
          /\ fn_ret = "LeftWins" <=> (nr = 0 /\ nl > 0)
          /\ fn_ret = "RightWins" <=> (nl = 0 /\ nr > 0)
          /\ fn_ret = "Draw" <=> ((nl > 0 /\ nr > 0) \/ (nl = 0 /\ nr = 0))

\* Both players hold cards, the left player more of them: a draw.
OutcomeClassificationWitness ==
    /\ fn = "game_outcome"
    /\ fn_done
    /\ total_cards(fn_arg[1]) > total_cards(fn_arg[2])
    /\ total_cards(fn_arg[2]) > 0
    /\ fn_arg[2].draw_stack = <<>>
    /\ fn_ret = "Draw"

\* C13: for every 8-bit rank, Card::create yields a Card of that suite and
\* rank exactly when the rank is in [1, 13]; for 0 and 14..255 it yields none.
CardConstruction ==
    (fn = "Card::create" /\ fn_done) =>
      /\ fn_ret # None <=> (1 <= fn_arg[2] /\ fn_arg[2] <= 13)
      /\ fn_ret # None => fn_ret = Some([suite |-> fn_arg[1], number |-> fn_arg[2]])
      /\ fn_arg[2] \in {0} \cup (14..255) => fn_ret = None

\* The highest 8-bit rank refused for a spade.
CardConstructionWitness ==
    /\ fn = "Card::create"
    /\ fn_done
    /\ fn_arg = <<"Spade", 255>>
    /\ fn_ret = None

\* C14: play_game returns the number of play_round calls it made: 0, with both
\* PlayerStacks unchanged, when a player is empty at the start; otherwise at
\* least 1, the final round that reports game over included even when it
\* moved no card.
RoundCountReturned ==
    (pc = "return") =>
      /\ round_counter = rounds_played
      /\ (HasNoCard(initial[1]) \/ HasNoCard(initial[2])) =>
           /\ round_counter = 0
           /\ left = initial[1]
           /\ right = initial[2]
      /\ (~HasNoCard(initial[1]) /\ ~HasNoCard(initial[2])) =>
           /\ round_counter >= 1
           /\ (game_state = "GameOver" /\ won_cards = <<>>) =>
                /\ round_counter >= 2
                /\ left = pre_left
                /\ right = pre_right

\* A game of two rounds: one won, and the round that found the loser empty.
RoundCountReturnedWitness ==
    /\ pc = "return"
    /\ game_state = "GameOver"
    /\ round_counter = 2
    /\ rounds_played = 2
    /\ won_cards = <<>>
    /\ left = pre_left
    /\ HasNoCard(right)

\* C15: a play_round that returned GameOver left at least one player without a
\* card; play_game returns with both players holding cards only when the loop
\* was stopped by the limit.
GameOverImpliesExhaustion ==
    /\ (RoundOver /\ game_state = "GameOver") => (HasNoCard(left) \/ HasNoCard(right))
    /\ (pc = "return" /\ ~HasNoCard(left) /\ ~HasNoCard(right)) =>
         /\ round_counter > ScaledCap
         /\ game_state = "Continue"

\* A game that ended in its first round, by a pair that tied with the left
\* player's last card while the right player kept one.
GameOverImpliesExhaustionWitness ==
    /\ pc = "return"
    /\ round_counter = 1
    /\ game_state = "GameOver"
    /\ HasNoCard(left)
    /\ total_cards(right) = 1
    /\ Len(discarded) = 2

\* Some card of `mine` has a rank above every other card of `mine` and above
\* every card of `others`.
HoldsStrictlyHighest(mine, others) ==
    \E i \in DOMAIN mine :
      /\ \A j \in DOMAIN mine : j # i => mine[j].number < mine[i].number
      /\ \A j \in DOMAIN others : others[j].number < mine[i].number

\* The hand holds a card above every card of `others`.
HoldsACardAbove(hand, others) ==
    \E i \in DOMAIN hand : \A j \in DOMAIN others : others[j].number < hand[i].number

\* What C16 says of the player `holder` (dealt `dealt`) against `other`.
NeverLoses(dealt, dealtOther, holder, other) ==
    HoldsStrictlyHighest(CardsOf(dealt), CardsOf(dealtOther)) =>
      /\ pc \notin {"resolve_round", "play_round"} =>
           /\ ~HasNoCard(holder)
           /\ HoldsACardAbove(CardsOf(holder), CardsOf(other) \o discarded)
           /\ HoldsStrictlyHighest(CardsOf(holder), CardsOf(other))
      /\ (pc = "return" /\ round_counter <= ScaledCap) => HasNoCard(other)

\* C16: a player dealt a card of a rank strictly above every other card still
\* holds that card after every round and is never empty; when play_game ends
\* before the limit, the other player is the empty one.
HighestCardHolder ==
    /\ NeverLoses(initial[1], initial[2], left, right)
    /\ NeverLoses(initial[2], initial[1], right, left)

\* The right player, who was not dealt the highest card, has won a card and
\* the left player still holds the highest card.
HighestCardHolderWitness ==
    /\ pc = "return"
    /\ HoldsStrictlyHighest(CardsOf(initial[1]), CardsOf(initial[2]))
    /\ total_cards(right) > Len(initial[2].draw_stack)
    /\ HoldsStrictlyHighest(CardsOf(left), CardsOf(right))

CombinedTotal == total_cards(left) + total_cards(right)

CombinedTotalAtCall == total_cards(pre_left) + total_cards(pre_right)

\* C18: a play_round that returns Continue leaves the combined total as it
\* was at the call, so the combined total goes down only in a round that
\* returns GameOver; in one play_game that happens in at most one round, and
\* no round is played after it.
CardsLostOnlyInLastRound ==
    /\ RoundOver =>
         /\ game_state = "Continue" => CombinedTotal = CombinedTotalAtCall
         /\ CombinedTotal # CombinedTotalAtCall =>
              /\ game_state = "GameOver"
              /\ CombinedTotal = CombinedTotalAtCall - Len(won_cards)
    /\ (caller = "play_game" /\ discarded # <<>>) =>
         /\ pc \in {"cap_check", "while", "return"}
         /\ game_state = "GameOver"
         /\ discarded = won_cards
         /\ CombinedTotal = InitialTotal - Len(won_cards)

\* A play_game that kept every card for a round, lost two in the next and
\* returned.
CardsLostOnlyInLastRoundWitness ==
    /\ caller = "play_game"
    /\ pc = "return"
    /\ round_counter >= 2
    /\ Len(discarded) = 2
    /\ CombinedTotal = InitialTotal - 2
    /\ CombinedTotal > 0

SmallerTotalAtCall ==
    IF total_cards(pre_left) <= total_cards(pre_right)
    THEN total_cards(pre_left)
    ELSE total_cards(pre_right)

\* C19: in one play_round the pairs popped never exceed the smaller of the two
\* totals at the call; the resolve_round invocations are at most one more,
\* the one more being the invocation that finds a player empty; each nested
\* invocation is entered with both totals smaller than in its caller.
TieChainDepthBound ==
    [][(pc = "resolve_round") =>
         /\ Len(collected_cards') \div 2 <= SmallerTotalAtCall
         /\ depth' <= SmallerTotalAtCall + 1
         /\ \/ depth' = Len(collected_cards') \div 2
            \/ /\ depth' = Len(collected_cards') \div 2 + 1
               /\ winner' = "GameOver"
         /\ (pc' = "resolve_round") =>
              /\ total_cards(left') < total_cards(left)
              /\ total_cards(right') < total_cards(right)]_vars

\* A chain that used up the smaller player's two cards in ties: two pairs
\* popped, and a third invocation that found the player empty.
TieChainDepthBoundWitness ==
    /\ pc = "play_round"
    /\ winner = "GameOver"
    /\ SmallerTotalAtCall = 2
    /\ depth = 3
    /\ Len(collected_cards) = 4

\* What a game shows when suites are not looked at: the ranks in every stack
\* in order, the round count, the round result and where the game stands.
RankView(g) ==
    [left_draw |-> RanksOf(g.left.draw_stack),
     left_won |-> RanksOf(g.left.won_stack),
     right_draw |-> RanksOf(g.right.draw_stack),
     right_won |-> RanksOf(g.right.won_stack),
     collected |-> RanksOf(g.collected_cards),
     winner |-> g.winner,
     round_counter |-> g.round_counter,
     game_state |-> g.game_state,
     pc |-> g.pc]

\* C20: two games of play_game dealt the same ranks in different suites, and
\* getting the same shuffle outcomes, show the same ranks in every stack, the
\* same round results and the same round count at every step.
RankOnlyComparison ==
    game_a # <<>> => RankView(game_a) = RankView(game_b)

\* A shuffle in both games has changed the order of a won stack, and game_b,
\* which is not game_a, has just met a tie of two cards of different suites.
RankOnlyComparisonWitness ==
    /\ game_a # <<>>
    /\ game_a # game_b
    /\ \E i \in DOMAIN shuffled_as : shuffled_as[i] # i
    /\ game_b.pc = "resolve_round"
    /\ game_b.collected_cards # <<>>
    /\ LET n == Len(game_b.collected_cards)
       IN  /\ game_b.collected_cards[n - 1].number = game_b.collected_cards[n].number
           /\ game_b.collected_cards[n - 1].suite # game_b.collected_cards[n].suite

====
